---- MODULE Spec2Model ----
(***************************************************************************)
(* Model of the process-wide application context of the payment service:   *)
(*   - create_app_context: replica pre-selection, handle construction and  *)
(*     the sequential fail-fast connects;                                  *)
(*   - AppContext.close: gather() over the six disconnects, with the       *)
(*     stripe thread pool shut down in the finally block;                  *)
(*   - the registration helpers on app.extra["context"].                   *)
(* The DB class (app.commons.database.infra) and StripeClientPool are not  *)
(* part of the sources modelled here; their connection states follow the   *)
(* written specification.                                                  *)
(***************************************************************************)
EXTENDS Integers, Sequences, FiniteSets, TLC

\* ------------------------------------------------------------------ bounds
\* number of distinct alternative replica endpoints the configuration may name
NumAltEndpoints == 2
\* maximal length of config.AVAILABLE_MAINDB_REPLICAS
MaxReplicas == 2
\* number of distinct AppContext objects offered to the registration helpers
NumContexts == 2
\* maximal number of registration helper calls in one run
MaxRegOps == 5
\* maximal number of rows of a table (ids are 1..MaxRows)
MaxRows == 2
\* the latest point in time a transfer can be submitted at (times are 1..MaxTime)
MaxTime == 2
\* maximal number of repository calls in one run
MaxRepoOps == 2
\* maximal number of connect() and disconnect() calls on the handles in one run
MaxHandleOps == 3

\* --------------------------------------------------------------- constants
\* the six DB fields of AppContext, in the order create_app_context connects
ConnectOrder ==
  << "payout_maindb", "payout_bankdb", "payin_maindb",
     "payin_paymentdb", "ledger_maindb", "ledger_paymentdb" >>

NumDBs == Len(ConnectOrder)

DBs == { ConnectOrder[i] : i \in 1..NumDBs }

\* the handles built with DB.create_with_alternative_replica
AltReplicaDBs == { "payout_maindb", "payin_maindb", "ledger_maindb" }

\* the handles built with DB.create
PlainDBs == { "payout_bankdb", "payin_paymentdb", "ledger_paymentdb" }

\* position of a handle in the connect order
RECURSIVE IndexFrom(_, _)
IndexFrom(d, i) == IF ConnectOrder[i] = d THEN i ELSE IndexFrom(d, i + 1)

DBIndex(d) == IndexFrom(d, 1)

\* endpoints: the alternatives of AVAILABLE_MAINDB_REPLICAS, each handle's own
\* configured *_REPLICA_URL, and None
NoEndpoint == [kind |-> "none", idx |-> 0]

AltEndpoint(i) == [kind |-> "alt", idx |-> i]

AltEndpoints == { AltEndpoint(i) : i \in 1..NumAltEndpoints }

ConfigReplicaUrl(d) == [kind |-> "own", idx |-> DBIndex(d)]

\* the values config.AVAILABLE_MAINDB_REPLICAS may take
RECURSIVE SeqsUpTo(_, _)
SeqsUpTo(S, n) ==
  IF n = 0 THEN { << >> }
  ELSE LET shorter == SeqsUpTo(S, n - 1)
       IN  shorter \cup { Append(s, x) : s \in { t \in shorter : Len(t) = n - 1 }, x \in S }

ReplicaLists == SeqsUpTo(AltEndpoints, MaxReplicas)

Range(s) == { s[i] : i \in 1..Len(s) }

\* the errors a connect() or disconnect() may raise
Errors == { "ConnectionError", "TimeoutError" }

NoError == [db |-> "none", err |-> "none"]

VARIABLES
  available_maindb_replicas,  \* config.AVAILABLE_MAINDB_REPLICAS
  selected_maindb_replica,    \* local of create_app_context
  replica_url,                \* per handle: the replica endpoint it holds
  conn,                       \* per handle: connection state
  connect_calls,              \* the handles connect() was called on, in order
  create_pc,                  \* position of create_app_context
  connect_exc,                \* the exception a connect() raised
  create_error,               \* the exception create_app_context raised
  stripe,                     \* the StripeClientPool: absent, running, shutdown
  close_pc,                   \* position of AppContext.close
  outer,                      \* gather's outer future
  outer_exc,                  \* the exception set on gather's outer future
  close_error,                \* the exception close raised
  will_raise,                 \* the handles whose disconnect() ends by raising
  extra,                      \* app.extra, restricted to the key "context"
  reg_call,                   \* the last registration helper call and its outcome
  reg_before,                 \* app.extra as it was before that call
  last_attached,              \* the context of the last successful set_context_for_app
  reg_ops,                    \* number of registration helper calls so far
  table_name,                 \* the table the repository calls of this run work on
  master,                     \* its rows as the master pool sees them, by id
  replica,                    \* its rows as the replica pool sees them, by id
  repo_call,                  \* the last repository call and its outcome
  repo_before,                \* the master rows as they were before that call
  last_insert,                \* output of the last insert, if no write followed it
  repo_ops,                   \* number of repository calls so far
  in_flight,                  \* the create_transfer calls awaiting the master pool
  handle,                     \* per handle on its own: state, pools, last call
  db_ops                      \* number of connect() and disconnect() calls so far

config_vars == << available_maindb_replicas >>

handle_vars == << replica_url, conn >>

create_vars ==
  << selected_maindb_replica, connect_calls, create_pc, connect_exc, create_error >>

close_vars == << close_pc, outer, outer_exc, close_error, will_raise >>

reg_vars == << extra, reg_call, reg_before, last_attached, reg_ops >>

repo_vars ==
  << table_name, master, replica, repo_call, repo_before, last_insert, repo_ops,
     in_flight >>

db_vars == << handle, db_ops >>

vars ==
  << config_vars, handle_vars, create_vars, stripe, close_vars, reg_vars, repo_vars,
     db_vars >>

\* -------------------------------------------------- DB (from the written spec)
\* DB.create: the handle keeps its own configured replica
DBCreate(d) == ConfigReplicaUrl(d)

\* DB.create_with_alternative_replica: the alternative overrides the
\* configured replica unless it is None
DBCreateWithAlternativeReplica(d, alternative_replica) ==
  IF alternative_replica # NoEndpoint THEN alternative_replica
  ELSE ConfigReplicaUrl(d)

\* connection states of a handle
ConnStates ==
  { "disconnected", "connecting", "connected", "disconnecting", "disconnect_failed" }

\* a handle nobody has called yet, and one that is connected
HandleDisconnected == [state |-> "disconnected", master_pool |-> FALSE, replica_pool |-> FALSE]

HandleConnected == [state |-> "connected", master_pool |-> TRUE, replica_pool |-> TRUE]

\* what of a handle a caller sees: its state and its two pools
Observed(h) ==
  [state |-> h.state, master_pool |-> h.master_pool, replica_pool |-> h.replica_pool]

NoDBCall == [op |-> "none", outcome |-> "none", before |-> HandleDisconnected]

DBIdle ==
  /\ handle = [d \in DBs |-> [state |-> "disconnected", master_pool |-> FALSE,
                              replica_pool |-> FALSE, last |-> NoDBCall]]
  /\ db_ops = 0

\* ------------------------------------------------------ registration state
NoContext == 0

Contexts == 1..NumContexts

\* app.extra without the key "context"
EmptyExtra == [k \in {} |-> NoContext]

\* app.extra after app.extra["context"] = c
ExtraWith(c) == [k \in {"context"} |-> c]

\* app.extra.get("context")
ExtraGet(x) == IF "context" \in DOMAIN x THEN x["context"] ELSE NoContext

NoCall == [op |-> "none", arg |-> NoContext, outcome |-> "none", value |-> NoContext]

RegIdle ==
  /\ extra = EmptyExtra
  /\ reg_call = NoCall
  /\ reg_before = EmptyExtra
  /\ last_attached = NoContext
  /\ reg_ops = 0

\* --------------------------------------------------------- repository state
\* SQL NULL and Python None, in every column
Null == 0

Ids == 1..MaxRows

Times == 1..MaxTime

\* opaque non-null values of the legacy and alternate key columns
KeyValues == { 1, 2 }

\* opaque non-null values of the other text columns
TextValues == { 1 }

\* TransferMethodType.STRIPE and one other transfer method
STRIPE == 1

OtherMethod == 2

Methods == { STRIPE, OtherMethod }

\* the tables, with the repository each belongs to
Tables == { "payers", "pgp_customers", "stripe_customers", "transfers" }

EmptyTable == [k \in {} |-> Null]

NoRepoCall ==
  [op |-> "none", pool |-> "none", stmts |-> 0, arg |-> [id |-> Null], fetched |-> 0,
   lagging |-> FALSE, outcome |-> "none", value |-> {}]

NoInsert == [id |-> Null, model |-> {}]

\* the rows a table holds before the run starts
SampleRows(t) ==
  IF t = "payers"
  THEN [k \in {1} |-> [id |-> 1, legacy_stripe_customer_id |-> 1, dd_payer_id |-> 2]]
  ELSE IF t = "pgp_customers"
  THEN [k \in {1} |->
          [id |-> 1, payer_id |-> 1, default_payment_method_id |-> Null,
           legacy_default_source_id |-> 1, legacy_default_card_id |-> Null]]
  ELSE IF t = "stripe_customers"
  THEN [k \in {1} |->
          [id |-> 1, stripe_id |-> 1, default_card |-> 1, default_source |-> Null]]
  ELSE [k \in {1} |->
          [id |-> 1, submitted_at |-> 1, method |-> STRIPE, created_at |-> 0]]

RepoIdle ==
  /\ table_name = "payers"
  /\ master = EmptyTable
  /\ replica = EmptyTable
  /\ repo_call = NoRepoCall
  /\ repo_before = EmptyTable
  /\ last_insert = NoInsert
  /\ repo_ops = 0
  /\ in_flight = {}

\* ------------------------------------------------------- create_app_context
\* before create_app_context: no handle built, nothing connected
LifeIdle ==
  /\ selected_maindb_replica = NoEndpoint
  /\ replica_url = [d \in DBs |-> NoEndpoint]
  /\ conn = [d \in DBs |-> "disconnected"]
  /\ connect_calls = << >>
  /\ create_pc = "select"
  /\ connect_exc = NoError
  /\ create_error = NoError
  /\ stripe = "absent"
  /\ close_pc = "idle"
  /\ outer = "none"
  /\ outer_exc = NoError
  /\ close_error = NoError
  /\ will_raise = {}

CtxInit ==
  /\ available_maindb_replicas \in ReplicaLists
  /\ LifeIdle
  /\ RegIdle
  /\ RepoIdle
  /\ DBIdle

\* a plausible slip: the replica is picked among all known endpoints, and the
\* first one is used when the configured list is empty
SelectReplica_unchecked ==
  /\ create_pc = "select"
  /\ IF available_maindb_replicas # << >>
     THEN \E x \in AltEndpoints : selected_maindb_replica' = x
     ELSE selected_maindb_replica' = AltEndpoint(1)
  /\ create_pc' = "build"
  /\ UNCHANGED << connect_calls, connect_exc, create_error >>
  /\ UNCHANGED << config_vars, db_vars, handle_vars, stripe, close_vars, reg_vars, repo_vars >>

\* selected_maindb_replica = choice(...) if ... else None
SelectReplica ==
  /\ create_pc = "select"
  /\ IF available_maindb_replicas # << >>
     THEN \E i \in 1..Len(available_maindb_replicas) :
            selected_maindb_replica' = available_maindb_replicas[i]
     ELSE selected_maindb_replica' = NoEndpoint
  /\ create_pc' = "build"
  /\ UNCHANGED << connect_calls, connect_exc, create_error >>
  /\ UNCHANGED << config_vars, db_vars, handle_vars, stripe, close_vars, reg_vars, repo_vars >>

\* a plausible slip: choice() is called again for every handle
BuildHandles_rerandomized ==
  /\ create_pc = "build"
  /\ \E pick \in [AltReplicaDBs -> Range(available_maindb_replicas) \cup {NoEndpoint}] :
       /\ \A d \in AltReplicaDBs :
            (pick[d] = NoEndpoint) <=> (available_maindb_replicas = << >>)
       /\ replica_url' =
            [d \in DBs |->
               IF d \in AltReplicaDBs
               THEN DBCreateWithAlternativeReplica(d, pick[d])
               ELSE DBCreate(d)]
  /\ create_pc' = "connect"
  /\ UNCHANGED << conn, selected_maindb_replica, connect_calls, connect_exc, create_error >>
  /\ UNCHANGED << config_vars, db_vars, stripe, close_vars, reg_vars, repo_vars >>

\* the six DB.create / DB.create_with_alternative_replica calls
BuildHandles ==
  /\ create_pc = "build"
  /\ replica_url' =
       [d \in DBs |->
          IF d \in AltReplicaDBs
          THEN DBCreateWithAlternativeReplica(d, selected_maindb_replica)
          ELSE DBCreate(d)]
  /\ create_pc' = "connect"
  /\ UNCHANGED << conn, selected_maindb_replica, connect_calls, connect_exc, create_error >>
  /\ UNCHANGED << config_vars, db_vars, stripe, close_vars, reg_vars, repo_vars >>

\* the handle the next "await <db>.connect()" is about
NextToConnect == ConnectOrder[Len(connect_calls) + 1]

\* a plausible slip: the connects are issued without awaiting the previous one
ConnectStart_eager ==
  /\ create_pc \in { "connect", "connecting" }
  /\ Len(connect_calls) < NumDBs
  /\ conn' = [conn EXCEPT ![NextToConnect] = "connecting"]
  /\ connect_calls' = Append(connect_calls, NextToConnect)
  /\ create_pc' = "connecting"
  /\ UNCHANGED << replica_url, selected_maindb_replica, connect_exc, create_error >>
  /\ UNCHANGED << config_vars, db_vars, stripe, close_vars, reg_vars, repo_vars >>

\* await <db>.connect() is entered for the next handle in the order
ConnectStart ==
  /\ create_pc = "connect"
  /\ Len(connect_calls) < NumDBs
  /\ conn' = [conn EXCEPT ![NextToConnect] = "connecting"]
  /\ connect_calls' = Append(connect_calls, NextToConnect)
  /\ create_pc' = "connecting"
  /\ UNCHANGED << replica_url, selected_maindb_replica, connect_exc, create_error >>
  /\ UNCHANGED << config_vars, db_vars, stripe, close_vars, reg_vars, repo_vars >>

\* the pending connect() returns: fall through to the next try block
ConnectOk ==
  /\ create_pc = "connecting"
  /\ LET d == connect_calls[Len(connect_calls)]
     IN  conn' = [conn EXCEPT ![d] = "connected"]
  /\ create_pc' = IF Len(connect_calls) = NumDBs THEN "make_clients" ELSE "connect"
  /\ UNCHANGED << replica_url, selected_maindb_replica, connect_calls, connect_exc,
                  create_error >>
  /\ UNCHANGED << config_vars, db_vars, stripe, close_vars, reg_vars, repo_vars >>

\* a plausible slip: the except block logs the failure and does not re-raise
ConnectFail_swallowed ==
  /\ create_pc = "connecting"
  /\ \E e \in Errors :
       LET d == connect_calls[Len(connect_calls)]
       IN  /\ conn' = [conn EXCEPT ![d] = "disconnected"]
           /\ connect_exc' = [db |-> d, err |-> e]
  /\ create_pc' = IF Len(connect_calls) = NumDBs THEN "make_clients" ELSE "connect"
  /\ UNCHANGED << replica_url, selected_maindb_replica, connect_calls, create_error >>
  /\ UNCHANGED << config_vars, db_vars, stripe, close_vars, reg_vars, repo_vars >>

\* the pending connect() raises: except Exception: log; raise
ConnectFail ==
  /\ create_pc = "connecting"
  /\ \E e \in Errors :
       LET d == connect_calls[Len(connect_calls)]
       IN  /\ conn' = [conn EXCEPT ![d] = "disconnected"]
           /\ connect_exc' = [db |-> d, err |-> e]
           /\ create_error' = [db |-> d, err |-> e]
  /\ create_pc' = "raised"
  /\ UNCHANGED << replica_url, selected_maindb_replica, connect_calls >>
  /\ UNCHANGED << config_vars, db_vars, stripe, close_vars, reg_vars, repo_vars >>

\* a plausible slip: the stripe client pool is constructed before the connects
CreateContext_early ==
  /\ \/ /\ create_pc = "connect"
        /\ stripe = "absent"
        /\ UNCHANGED create_pc
     \/ /\ create_pc = "make_clients"
        /\ create_pc' = "returned"
  /\ stripe' = "running"
  /\ UNCHANGED << selected_maindb_replica, connect_calls, connect_exc, create_error >>
  /\ UNCHANGED << config_vars, db_vars, handle_vars, close_vars, reg_vars, repo_vars >>

\* StripeClientPool(...), DSJClient(...), AppContext(...), return context
CreateContext ==
  /\ create_pc = "make_clients"
  /\ stripe' = "running"
  /\ create_pc' = "returned"
  /\ UNCHANGED << selected_maindb_replica, connect_calls, connect_exc, create_error >>
  /\ UNCHANGED << config_vars, db_vars, handle_vars, close_vars, reg_vars, repo_vars >>

\* --------------------------------------------------------- AppContext.close
\* gather(...) wraps the six disconnect() coroutines in tasks; they all run
\* their first step before any completion callback or the wake-up of close.
\* Which of the disconnects end by raising is the environment's choice.
CloseStart ==
  /\ create_pc = "returned"
  /\ close_pc = "idle"
  /\ conn' = [d \in DBs |-> "disconnecting"]
  /\ will_raise' \in SUBSET DBs
  /\ outer' = "pending"
  /\ close_pc' = "gather"
  /\ UNCHANGED << replica_url, outer_exc, close_error >>
  /\ UNCHANGED << config_vars, db_vars, create_vars, stripe, reg_vars, repo_vars >>

\* one disconnect() returns; gather's _done_callback counts it and resolves
\* the outer future when it was the last one
DisconnectReturn(d) ==
  /\ close_pc # "idle"
  /\ conn[d] = "disconnecting"
  /\ d \notin will_raise
  /\ conn' = [conn EXCEPT ![d] = "disconnected"]
  /\ outer' = IF outer = "pending" /\ \A e \in DBs \ {d} : conn[e] = "disconnected"
              THEN "result" ELSE outer
  /\ UNCHANGED << replica_url, close_pc, outer_exc, close_error, will_raise >>
  /\ UNCHANGED << config_vars, db_vars, create_vars, stripe, reg_vars, repo_vars >>

\* one disconnect() raises; gather's _done_callback sets the exception on the
\* outer future at once unless the outer future is already done
DisconnectRaise(d) ==
  /\ close_pc # "idle"
  /\ conn[d] = "disconnecting"
  /\ d \in will_raise
  /\ \E e \in Errors :
       /\ conn' = [conn EXCEPT ![d] = "disconnect_failed"]
       /\ IF outer = "pending"
          THEN outer' = "exception" /\ outer_exc' = [db |-> d, err |-> e]
          ELSE UNCHANGED << outer, outer_exc >>
  /\ UNCHANGED << replica_url, close_pc, close_error, will_raise >>
  /\ UNCHANGED << config_vars, db_vars, create_vars, stripe, reg_vars, repo_vars >>

\* a plausible slip: the shutdown follows the gather instead of sitting in a
\* finally block, so an exception of gather skips it
CloseFinally_no_finally ==
  /\ close_pc = "gather"
  /\ outer \in { "result", "exception" }
  /\ stripe' = IF outer = "result" THEN "shutdown" ELSE stripe
  /\ close_pc' = "finally_done"
  /\ UNCHANGED << outer, outer_exc, close_error, will_raise >>
  /\ UNCHANGED << config_vars, db_vars, handle_vars, create_vars, reg_vars, repo_vars >>

\* await gather(...) completes either way; finally: self.stripe.shutdown(wait=False)
CloseFinally ==
  /\ close_pc = "gather"
  /\ outer \in { "result", "exception" }
  /\ stripe' = "shutdown"
  /\ close_pc' = "finally_done"
  /\ UNCHANGED << outer, outer_exc, close_error, will_raise >>
  /\ UNCHANGED << config_vars, db_vars, handle_vars, create_vars, reg_vars, repo_vars >>

\* a plausible slip: the exception of gather is dropped (a return in finally)
CloseExit_swallowed ==
  /\ close_pc = "finally_done"
  /\ close_pc' = "returned"
  /\ UNCHANGED << outer, outer_exc, close_error, will_raise >>
  /\ UNCHANGED << config_vars, db_vars, handle_vars, create_vars, stripe, reg_vars, repo_vars >>

\* leaving the try statement: return, or re-raise the exception of gather
CloseExit ==
  /\ close_pc = "finally_done"
  /\ IF outer = "exception"
     THEN close_pc' = "raised" /\ close_error' = outer_exc
     ELSE close_pc' = "returned" /\ UNCHANGED close_error
  /\ UNCHANGED << outer, outer_exc, will_raise >>
  /\ UNCHANGED << config_vars, db_vars, handle_vars, create_vars, stripe, reg_vars, repo_vars >>

\* the steps of create_app_context
CreateNext ==
  \/ SelectReplica
  \/ BuildHandles
  \/ ConnectStart
  \/ ConnectOk
  \/ ConnectFail
  \/ CreateContext

\* the steps of AppContext.close and of the disconnects it gathers
CloseNext ==
  \/ CloseStart
  \/ \E d \in DBs : DisconnectReturn(d)
  \/ \E d \in DBs : DisconnectRaise(d)
  \/ CloseFinally
  \/ CloseExit

\* ------------------------------------------------- registration on app.extra
\* the outcome of a helper call: returned value or AssertionError
Returned(v) == [outcome |-> "ok", value |-> v]

Raised == [outcome |-> "AssertionError", value |-> NoContext]

Call(op, arg, res) ==
  [op |-> op, arg |-> arg, outcome |-> res.outcome, value |-> res.value]

\* get_context_from_app: the isinstance assertion holds of every AppContext
get_context_from_app_unasserted(x) == Returned(ExtraGet(x))

get_context_from_app(x) ==
  IF ExtraGet(x) = NoContext THEN Raised ELSE Returned(ExtraGet(x))

\* a plausible slip: the answer is whether a context was ever attached
app_context_exists_ever(x) == IF last_attached # NoContext THEN 1 ELSE 0

\* app_context_exists; TRUE and FALSE are recorded as 1 and 0
app_context_exists(x) == IF ExtraGet(x) # NoContext THEN 1 ELSE 0

\* a plausible slip: the assertion is missing and the context is overwritten
set_context_for_app_overwriting(c) ==
  /\ reg_ops < MaxRegOps
  /\ extra' = ExtraWith(c)
  /\ last_attached' = c
  /\ reg_call' = Call("set", c, Returned(NoContext))
  /\ reg_before' = extra
  /\ reg_ops' = reg_ops + 1
  /\ UNCHANGED << config_vars, db_vars, handle_vars, create_vars, stripe, close_vars, repo_vars >>

set_context_for_app(c) ==
  /\ reg_ops < MaxRegOps
  /\ IF "context" \in DOMAIN extra
     THEN /\ reg_call' = Call("set", c, Raised)
          /\ UNCHANGED << extra, last_attached >>
     ELSE /\ extra' = ExtraWith(c)
          /\ last_attached' = c
          /\ reg_call' = Call("set", c, Returned(NoContext))
  /\ reg_before' = extra
  /\ reg_ops' = reg_ops + 1
  /\ UNCHANGED << config_vars, db_vars, handle_vars, create_vars, stripe, close_vars, repo_vars >>

GetContext ==
  /\ reg_ops < MaxRegOps
  /\ reg_call' = Call("get", NoContext, get_context_from_app(extra))
  /\ reg_before' = extra
  /\ reg_ops' = reg_ops + 1
  /\ UNCHANGED << extra, last_attached >>
  /\ UNCHANGED << config_vars, db_vars, handle_vars, create_vars, stripe, close_vars, repo_vars >>

ContextExists ==
  /\ reg_ops < MaxRegOps
  /\ reg_call' = Call("exists", NoContext, Returned(app_context_exists(extra)))
  /\ reg_before' = extra
  /\ reg_ops' = reg_ops + 1
  /\ UNCHANGED << extra, last_attached >>
  /\ UNCHANGED << config_vars, db_vars, handle_vars, create_vars, stripe, close_vars, repo_vars >>

\* a plausible slip: the identity assertion is missing
remove_context_for_app_any(c) ==
  /\ reg_ops < MaxRegOps
  /\ extra' = EmptyExtra
  /\ reg_call' =
       Call("remove", c,
            IF ExtraGet(extra) = NoContext THEN Raised ELSE Returned(NoContext))
  /\ reg_before' = extra
  /\ reg_ops' = reg_ops + 1
  /\ UNCHANGED last_attached
  /\ UNCHANGED << config_vars, db_vars, handle_vars, create_vars, stripe, close_vars, repo_vars >>

\* app.extra.pop("context", None) comes first, the two assertions after it
remove_context_for_app(c) ==
  /\ reg_ops < MaxRegOps
  /\ extra' = EmptyExtra
  /\ reg_call' =
       Call("remove", c,
            IF ExtraGet(extra) = NoContext THEN Raised
            ELSE IF ExtraGet(extra) # c THEN Raised
            ELSE Returned(NoContext))
  /\ reg_before' = extra
  /\ reg_ops' = reg_ops + 1
  /\ UNCHANGED last_attached
  /\ UNCHANGED << config_vars, db_vars, handle_vars, create_vars, stripe, close_vars, repo_vars >>

\* registration is exercised on its own, the context life cycle at rest
RegInit ==
  /\ available_maindb_replicas = << >>
  /\ CtxInit

RegNext ==
  \/ \E c \in Contexts : set_context_for_app(c)
  \/ GetContext
  \/ ContextExists
  \/ \E c \in Contexts : remove_context_for_app(c)

SpecReg == RegInit /\ [][RegNext]_vars

\* ------------------------------------ a handle on its own (from the written spec)
\* every step of a handle leaves the rest of the program alone
HandleStep(d, h) ==
  /\ handle' = [handle EXCEPT ![d] = h]
  /\ UNCHANGED << config_vars, handle_vars, create_vars, stripe, close_vars, reg_vars,
                  repo_vars >>

DBCall(op, outcome, h) == [op |-> op, outcome |-> outcome, before |-> Observed(h)]

\* connect() is called on a disconnected handle
DBConnectStart(d) ==
  /\ db_ops < MaxHandleOps
  /\ handle[d].state = "disconnected"
  /\ db_ops' = db_ops + 1
  /\ HandleStep(d, [handle[d] EXCEPT !.state = "connecting",
                                     !.last = DBCall("connect", "pending", handle[d])])

\* connect() establishes the master pool first
DBConnectMaster(d) ==
  /\ handle[d].state = "connecting"
  /\ ~handle[d].master_pool
  /\ UNCHANGED db_ops
  /\ HandleStep(d, [handle[d] EXCEPT !.master_pool = TRUE])

\* then the replica pool, and returns
DBConnectReplica(d) ==
  /\ handle[d].state = "connecting"
  /\ handle[d].master_pool
  /\ UNCHANGED db_ops
  /\ HandleStep(d, [handle[d] EXCEPT !.replica_pool = TRUE, !.state = "connected",
                                     !.last.outcome = "ok"])

\* a plausible slip: the master pool stays when the replica pool fails
DBConnectFail_partial(d) ==
  /\ handle[d].state = "connecting"
  /\ UNCHANGED db_ops
  /\ HandleStep(d, [handle[d] EXCEPT !.state = "disconnected",
                                     !.last.outcome = "ConnectionError"])

\* either pool fails: connect() fails atomically with a ConnectionError
DBConnectFail(d) ==
  /\ handle[d].state = "connecting"
  /\ UNCHANGED db_ops
  /\ HandleStep(d, [handle[d] EXCEPT !.state = "disconnected", !.master_pool = FALSE,
                                     !.replica_pool = FALSE,
                                     !.last.outcome = "ConnectionError"])

\* disconnect() returns: it has released both pools; on a handle that is not
\* connected it is a no-op
DBDisconnect(d) ==
  /\ db_ops < MaxHandleOps
  /\ handle[d].state \in { "disconnected", "connected" }
  /\ db_ops' = db_ops + 1
  /\ HandleStep(d, [handle[d] EXCEPT
                      !.state = "disconnected", !.master_pool = FALSE,
                      !.replica_pool = FALSE,
                      !.last = DBCall("disconnect", "ok", handle[d])])

\* disconnect() of a connected handle fails to release a pool and raises a
\* ConnectionError. The written spec names this failure and not what it
\* leaves of the handle, beyond a handle being fully connected or fully
\* disconnected: either is possible
DBDisconnectFail(d) ==
  /\ db_ops < MaxHandleOps
  /\ handle[d].state = "connected"
  /\ db_ops' = db_ops + 1
  /\ \E left \in { HandleConnected, HandleDisconnected } :
       HandleStep(d, [state |-> left.state, master_pool |-> left.master_pool,
                      replica_pool |-> left.replica_pool,
                      last |-> DBCall("disconnect", "ConnectionError", handle[d])])

HandleInit ==
  /\ available_maindb_replicas = << >>
  /\ CtxInit

HandleNext ==
  \/ \E d \in DBs : DBConnectStart(d)
  \/ \E d \in DBs : DBConnectMaster(d)
  \/ \E d \in DBs : DBConnectReplica(d)
  \/ \E d \in DBs : DBConnectFail(d)
  \/ \E d \in DBs : DBDisconnect(d)
  \/ \E d \in DBs : DBDisconnectFail(d)

SpecHandle == HandleInit /\ [][HandleNext]_vars

\* ------------------------------------------------- repositories: the database
Rows(t) == { t[k] : k \in DOMAIN t }

\* WHERE col = v; SQLAlchemy renders a comparison with None as IS NULL
Matching(t, col, v) == { r \in Rows(t) : r[col] = v }

\* fetch_one: no row, or one of the rows the statement selects
FetchOne(S) == IF S = {} THEN { {} } ELSE { {r} : r \in S }

\* a table with one more row
WithRow(t, r) == [k \in DOMAIN t \cup {r.id} |-> IF k = r.id THEN r ELSE t[k]]

\* request.dict(skip_defaults=True) of a set input: the fields that were
\* supplied, None included; none may have been supplied
SetInputs(fields, values) ==
  UNION { [D -> values \cup {Null}] : D \in SUBSET fields }

\* a plausible slip: the set-input is dumped with its defaults, so that the
\* fields not supplied are written as null
Updated_with_defaults(r, data) ==
  [c \in DOMAIN r |-> IF c \in DOMAIN data THEN data[c]
                      ELSE IF c = "id" THEN r[c] ELSE Null]

\* UPDATE ... SET <the supplied fields> on one row
Updated(r, data) ==
  [c \in DOMAIN r |-> IF c \in DOMAIN data THEN data[c] ELSE r[c]]

\* UPDATE ... WHERE id = ... SET ...
UpdateWhereId(t, id, data) ==
  [k \in DOMAIN t |-> IF k = id THEN Updated(t[k], data) ELSE t[k]]

\* <Output>.from_row: the columns of the row that are fields of the model
FromRow(fields, r) == [c \in fields |-> r[c]]

PayerFields == { "id", "legacy_stripe_customer_id", "dd_payer_id" }

PgpCustomerFields == { "id", "payer_id" }

PgpCustomerSetFields ==
  { "default_payment_method_id", "legacy_default_source_id", "legacy_default_card_id" }

StripeCustomerFields == { "id", "stripe_id", "default_card", "default_source" }

StripeCustomerSetFields == { "default_card", "default_source" }

TransferFields == { "id", "submitted_at", "method", "created_at" }

TransferSetFields == { "submitted_at", "method" }

\* the primary key an insert without id is given by the table's sequence
NextId(t) == Cardinality(DOMAIN t) + 1

\* a new call may be made while fewer than MaxRepoOps calls have been made,
\* those in flight included
CanCall == repo_ops + Cardinality(in_flight) < MaxRepoOps

\* what a repository call leaves behind when it returns or raises; it is no
\* longer in flight then
RepoStep(call, new_master, new_last_insert) ==
  /\ repo_ops + Cardinality(in_flight \ { call.arg }) < MaxRepoOps
  /\ repo_call' = call
  /\ repo_before' = master
  /\ master' = new_master
  /\ last_insert' = new_last_insert
  /\ repo_ops' = repo_ops + 1
  /\ in_flight' = in_flight \ { call.arg }
  /\ UNCHANGED << table_name, replica >>
  /\ UNCHANGED << config_vars, db_vars, handle_vars, create_vars, stripe, close_vars, reg_vars >>

\* the record of a call: the pool and the rows its one statement fetched,
\* whether the replica was behind the master at that time, and what the
\* call gave back: the models made of the rows, or an exception
RepoCall(op, pool, arg, res, outcome, fields) ==
  [op |-> op, pool |-> pool, stmts |-> 1, arg |-> arg, fetched |-> Cardinality(res),
   lagging |-> (replica # master), outcome |-> outcome,
   value |-> IF outcome = "ok" THEN { FromRow(fields, r) : r \in res } ELSE {}]

\* "assert row" on the result of fetch_one
AssertRow(res) == IF res = {} THEN "AssertionError" ELSE "ok"

\* the replica catches up with the master
Replicate ==
  /\ replica # master
  /\ replica' = master
  /\ UNCHANGED << table_name, master, repo_call, repo_before, last_insert, repo_ops,
                  in_flight >>
  /\ UNCHANGED << config_vars, db_vars, handle_vars, create_vars, stripe, close_vars, reg_vars >>

\* a plausible slip: the insert gives None back when no row is returned
InsertReturning_optional(op, arg, r, fields) ==
  IF r.id \in DOMAIN master
  THEN RepoStep(RepoCall(op, "master", arg, {}, "IntegrityError", fields),
                master, last_insert)
  ELSE \/ RepoStep(RepoCall(op, "master", arg, {r}, "ok", fields),
                   WithRow(master, r),
                   [id |-> r.id, model |-> { FromRow(fields, r) }])
       \/ RepoStep(RepoCall(op, "master", arg, {}, "ok", fields), master, last_insert)

\* INSERT ... RETURNING on the master, the row asserted. A duplicate primary
\* key raises IntegrityError; otherwise the row is stored and returned, or --
\* the case the assertion is written for -- nothing is stored and no row
\* comes back
InsertReturning(op, arg, r, fields) ==
  IF r.id \in DOMAIN master
  THEN RepoStep(RepoCall(op, "master", arg, {}, "IntegrityError", fields),
                master, last_insert)
  ELSE \/ RepoStep(RepoCall(op, "master", arg, {r}, AssertRow({r}), fields),
                   WithRow(master, r),
                   [id |-> r.id, model |-> { FromRow(fields, r) }])
       \/ RepoStep(RepoCall(op, "master", arg, {}, AssertRow({}), fields),
                   master, last_insert)

\* an UPDATE whose .values() is given no column at all: the statement has
\* nothing to set, and what the database layer makes of it is not fixed by the
\* repository -- it is refused, or it runs as an update that sets nothing
UpdateWithoutSet(op, arg, data, fields) ==
  /\ DOMAIN data = {}
  /\ RepoStep(RepoCall(op, "master", arg, {}, "DatabaseError", fields),
              master, last_insert)

\* a plausible slip: the update runs on the replica pool
UpdateAsserted_on_replica(op, arg, id, data, fields) ==
  \E res \in FetchOne({ Updated(r, data) : r \in Matching(replica, "id", id) }) :
    RepoStep(RepoCall(op, "replica", arg, res, AssertRow(res), fields),
             master, last_insert)

\* UPDATE ... WHERE id = ... RETURNING on the master, the row asserted
UpdateAsserted(op, arg, id, data, fields) ==
  \/ UpdateWithoutSet(op, arg, data, fields)
  \/ \E res \in FetchOne({ Updated(r, data) : r \in Matching(master, "id", id) }) :
       RepoStep(RepoCall(op, "master", arg, res, AssertRow(res), fields),
                UpdateWhereId(master, id, data),
                IF res = {} THEN last_insert ELSE NoInsert)

\* -------------------------------------------------------------- PayerRepository
insert_payer(request) ==
  /\ table_name = "payers"
  /\ CanCall
  /\ InsertReturning("insert_payer", request, request, PayerFields)

\* a plausible slip: the next populated key is tried when one matches no row
PayerSelect_fallback(t, request) ==
  LET by(key) == IF request[key] # Null THEN Matching(t, key, request[key]) ELSE {}
  IN  IF by("id") # {} THEN by("id")
      ELSE IF by("legacy_stripe_customer_id") # {} THEN by("legacy_stripe_customer_id")
      ELSE Matching(t, "dd_payer_id", request.dd_payer_id)

\* the statement get_payer_by_id builds: the first populated key decides
PayerSelect(t, request) ==
  IF request.id # Null
  THEN Matching(t, "id", request.id)
  ELSE IF request.legacy_stripe_customer_id # Null
  THEN Matching(t, "legacy_stripe_customer_id", request.legacy_stripe_customer_id)
  ELSE Matching(t, "dd_payer_id", request.dd_payer_id)

\* a plausible slip: the lookup reads the replica pool
get_payer_by_id_on_replica(request) ==
  /\ table_name = "payers"
  /\ CanCall
  /\ \E res \in FetchOne(PayerSelect(replica, request)) :
       RepoStep(RepoCall("get_payer_by_id", "replica", request, res, "ok", PayerFields),
                master, last_insert)

get_payer_by_id(request) ==
  /\ table_name = "payers"
  /\ CanCall
  /\ \E res \in FetchOne(PayerSelect(master, request)) :
       RepoStep(RepoCall("get_payer_by_id", "master", request, res, "ok", PayerFields),
                master, last_insert)

PayerRequests ==
  [id : Ids, legacy_stripe_customer_id : KeyValues \cup {Null},
   dd_payer_id : KeyValues \cup {Null}]

GetPayerRequests ==
  [id : Ids \cup {Null}, legacy_stripe_customer_id : KeyValues \cup {Null},
   dd_payer_id : KeyValues \cup {Null}]

insert_pgp_customer(request) ==
  /\ table_name = "pgp_customers"
  /\ CanCall
  /\ InsertReturning("insert_pgp_customer", request,
                     [id |-> request.id, payer_id |-> request.payer_id,
                      default_payment_method_id |-> Null,
                      legacy_default_source_id |-> Null,
                      legacy_default_card_id |-> Null],
                     PgpCustomerFields)

\* the row is asserted, the pgp_code of the request is not used
get_pgp_customer(request) ==
  /\ table_name = "pgp_customers"
  /\ CanCall
  /\ \E res \in FetchOne(Matching(master, "payer_id", request.payer_id)) :
       RepoStep(RepoCall("get_pgp_customer", "master", request, res, AssertRow(res),
                         PgpCustomerFields),
                master, last_insert)

update_pgp_customer(request_set, request_where) ==
  /\ table_name = "pgp_customers"
  /\ CanCall
  /\ UpdateAsserted("update_pgp_customer", [id |-> request_where.id, set |-> request_set],
                    request_where.id, request_set, PgpCustomerFields)

PgpCustomerRequests == [id : Ids, payer_id : Ids]

GetPgpCustomerRequests == [payer_id : Ids, pgp_code : TextValues \cup {Null}]

insert_stripe_customer(request) ==
  /\ table_name = "stripe_customers"
  /\ CanCall
  /\ NextId(master) <= MaxRows
  /\ InsertReturning("insert_stripe_customer", request,
                     [id |-> NextId(master), stripe_id |-> request.stripe_id,
                      default_card |-> request.default_card,
                      default_source |-> request.default_source],
                     StripeCustomerFields)

\* WHERE stripe_customers.id == request.id, the row asserted; the stripe_id
\* of the request is not used
get_stripe_customer(request) ==
  /\ table_name = "stripe_customers"
  /\ CanCall
  /\ \E res \in FetchOne(Matching(master, "id", request.id)) :
       RepoStep(RepoCall("get_stripe_customer", "master", request, res, AssertRow(res),
                         StripeCustomerFields),
                master, last_insert)

update_stripe_customer(request_set, request_where) ==
  /\ table_name = "stripe_customers"
  /\ CanCall
  /\ UpdateAsserted("update_stripe_customer",
                    [id |-> request_where.id, set |-> request_set],
                    request_where.id, request_set, StripeCustomerFields)

StripeCustomerRequests ==
  [stripe_id : KeyValues, default_card : TextValues \cup {Null},
   default_source : TextValues \cup {Null}]

GetStripeCustomerRequests == [id : Ids \cup {Null}, stripe_id : KeyValues \cup {Null}]

\* ----------------------------------------------------------- TransferRepository
\* data.dict(skip_defaults=True) of a TransferCreate or TransferUpdate
TransferData ==
  { d \in UNION { [D -> Times \cup Methods \cup {Null}] : D \in SUBSET TransferSetFields } :
      /\ "submitted_at" \in DOMAIN d => d["submitted_at"] \in Times \cup {Null}
      /\ "method" \in DOMAIN d => d["method"] \in Methods \cup {Null} }

\* datetime.now(timezone.utc): the clock advances with every call made
Now == repo_ops + Cardinality(in_flight) + 1

\* the values of the INSERT create_transfer builds: the supplied fields, NULL
\* for the others, and created_at
InsertValues(data, created_at) ==
  Updated([submitted_at |-> Null, method |-> Null, created_at |-> created_at], data)

\* create_transfer up to its await: the statement is built, with created_at
\* read from the clock now, and handed to the master pool
create_transfer(data) ==
  /\ table_name = "transfers"
  /\ CanCall
  /\ Cardinality(DOMAIN master) + Cardinality(in_flight) < MaxRows
  /\ in_flight' = in_flight \cup { [id |-> Null, values |-> InsertValues(data, Now)] }
  /\ UNCHANGED << table_name, master, replica, repo_call, repo_before, last_insert,
                  repo_ops >>
  /\ UNCHANGED << config_vars, db_vars, handle_vars, create_vars, stripe, close_vars, reg_vars >>

\* the pool executes the statement of a create_transfer in flight, in any
\* order among those in flight; the row is asserted and create_transfer returns
CreateTransferReturn(stmt) ==
  /\ stmt \in in_flight
  /\ InsertReturning("create_transfer", stmt,
                     [c \in TransferFields |->
                        IF c = "id" THEN NextId(master) ELSE stmt.values[c]],
                     TransferFields)

get_transfer_by_id(transfer_id) ==
  /\ table_name = "transfers"
  /\ CanCall
  /\ \E res \in FetchOne(Matching(replica, "id", transfer_id)) :
       RepoStep(RepoCall("get_transfer_by_id", "replica", [id |-> transfer_id], res,
                         "ok", TransferFields),
                master, last_insert)

get_transfers_by_ids(transfer_ids) ==
  /\ table_name = "transfers"
  /\ CanCall
  /\ RepoStep(RepoCall("get_transfers_by_ids", "master", [ids |-> transfer_ids],
                       { r \in Rows(master) : r.id \in transfer_ids }, "ok",
                       TransferFields),
              master, last_insert)

\* a plausible slip: the comparison is strict
SubmittedSince_strictly(t, start_time) ==
  { r \in Rows(t) :
      /\ r.submitted_at # Null
      /\ r.submitted_at > start_time
      /\ r.method = STRIPE }

\* submitted_at >= start_time AND method = STRIPE; a NULL never compares
SubmittedSince(t, start_time) ==
  { r \in Rows(t) :
      /\ r.submitted_at # Null
      /\ r.submitted_at >= start_time
      /\ r.method = STRIPE }

\* the result is the list of the ids of the transfers made of the rows
get_transfers_by_submitted_at_and_method(start_time) ==
  /\ table_name = "transfers"
  /\ CanCall
  /\ LET call == RepoCall("get_transfers_by_submitted_at_and_method", "replica",
                          [start_time |-> start_time],
                          SubmittedSince(replica, start_time), "ok", TransferFields)
     IN  RepoStep([call EXCEPT !.value = { m.id : m \in call.value }],
                  master, last_insert)

\* UPDATE ... WHERE id = ... RETURNING on the master: the row or None
update_transfer_by_id(transfer_id, data) ==
  /\ table_name = "transfers"
  /\ CanCall
  /\ \/ UpdateWithoutSet("update_transfer_by_id", [id |-> transfer_id, set |-> data],
                         data, TransferFields)
     \/ \E res \in FetchOne({ Updated(r, data) : r \in Matching(master, "id", transfer_id) }) :
       RepoStep(RepoCall("update_transfer_by_id", "master",
                         [id |-> transfer_id, set |-> data], res, "ok", TransferFields),
                UpdateWhereId(master, transfer_id, data),
                IF res = {} THEN last_insert ELSE NoInsert)

\* a run works on one table, empty or holding its sample rows, with a replica
\* that is up to date or has not received them yet
RepoInit ==
  /\ available_maindb_replicas = << >>
  /\ LifeIdle
  /\ RegIdle
  /\ DBIdle
  /\ table_name \in Tables
  /\ master \in { EmptyTable, SampleRows(table_name) }
  /\ replica \in { EmptyTable, master }
  /\ repo_call = NoRepoCall
  /\ repo_before = EmptyTable
  /\ last_insert = NoInsert
  /\ repo_ops = 0
  /\ in_flight = {}

\* one step of a repository: a call of one of its methods, run to its end at
\* its single await, except create_transfer, whose clock read and INSERT are
\* two steps; every other call may run between the two, and the INSERTs in
\* flight run in any order; new calls are made until MaxRepoOps calls have
\* been made
RepoNext ==
  \/ Replicate
  \/ \E request \in PayerRequests : insert_payer(request)
  \/ \E request \in GetPayerRequests : get_payer_by_id(request)
  \/ \E request \in PgpCustomerRequests : insert_pgp_customer(request)
  \/ \E request \in GetPgpCustomerRequests : get_pgp_customer(request)
  \/ \E request_set \in SetInputs(PgpCustomerSetFields, TextValues),
        request_where \in [id : Ids] :
       update_pgp_customer(request_set, request_where)
  \/ \E request \in StripeCustomerRequests : insert_stripe_customer(request)
  \/ \E request \in GetStripeCustomerRequests : get_stripe_customer(request)
  \/ \E request_set \in SetInputs(StripeCustomerSetFields, TextValues),
        request_where \in [id : Ids] :
       update_stripe_customer(request_set, request_where)
  \/ \E data \in TransferData : create_transfer(data)
  \/ \E stmt \in in_flight : CreateTransferReturn(stmt)
  \/ \E transfer_id \in Ids : get_transfer_by_id(transfer_id)
  \/ \E transfer_ids \in SUBSET Ids : get_transfers_by_ids(transfer_ids)
  \/ \E start_time \in Times : get_transfers_by_submitted_at_and_method(start_time)
  \/ \E transfer_id \in Ids, data \in TransferData :
       update_transfer_by_id(transfer_id, data)

SpecRepo == RepoInit /\ [][RepoNext]_vars

\* ---------------------------------------------------------- specifications
\* context creation, for every configured replica list
Init == CtxInit

Next == CreateNext

Spec == Init /\ [][Next]_vars

\* creation followed by close(); the replica list plays no part in close()
CloseInit ==
  /\ available_maindb_replicas = << AltEndpoint(1) >>
  /\ CtxInit

LifeNext == CreateNext \/ CloseNext

SpecClose == CloseInit /\ [][LifeNext]_vars

\* the event loop runs the task in close() to its end, and while close()
\* awaits gather(...) it runs the disconnect tasks, each of which ends by
\* returning or by raising. Once the await has ended nothing in close() keeps
\* the loop running for the disconnects still pending: whether they ever
\* finish is up to the caller
FairSpecClose ==
  /\ SpecClose
  /\ WF_vars(CloseFinally)
  /\ WF_vars(CloseExit)
  /\ \A d \in DBs :
       WF_vars(close_pc = "gather" /\ outer = "pending"
               /\ (DisconnectReturn(d) \/ DisconnectRaise(d)))

\* ------------------------------------------------------------------ claims
Finished(d) == conn[d] \in { "disconnected", "disconnect_failed" }

\* C1: when the connect() of the k-th handle of the connect order raises,
\* create_app_context raises that same exception, connect() has been called
\* on exactly the first k handles, the later handles were never touched, and
\* no context (hence no stripe pool) was built.
C1_FailFastConnect ==
  connect_exc # NoError =>
    LET k == Len(connect_calls)
    IN  /\ create_pc = "raised"
        /\ create_error = connect_exc
        /\ k >= 1
        /\ connect_calls = SubSeq(ConnectOrder, 1, k)
        /\ connect_exc.db = ConnectOrder[k]
        /\ \A j \in (k + 1)..NumDBs : conn[ConnectOrder[j]] = "disconnected"
        /\ stripe = "absent"

C1_Witness ==
  /\ create_pc = "raised"
  /\ Len(connect_calls) = 3
  /\ create_error = [db |-> "payin_maindb", err |-> "TimeoutError"]

\* C2: once close() has started, stripe.shutdown is eventually called, and
\* close() never ends without it, whichever subset of the disconnects raises.
C2_StripeAlwaysReleased ==
  /\ [](close_pc \in { "returned", "raised" } => stripe = "shutdown")
  /\ (close_pc # "idle") ~> (stripe = "shutdown")

C2_Witness ==
  /\ stripe = "shutdown"
  /\ will_raise = DBs
  /\ \A d \in DBs : conn[d] = "disconnect_failed"

\* C3 (as claimed): in the step that calls stripe.shutdown, every one of the
\* six disconnects has already returned or raised.
C3_AllFinishedAtShutdown ==
  [][ (stripe # "shutdown" /\ stripe' = "shutdown") => \A d \in DBs : Finished(d) ]_vars

\* C4: when a disconnect has raised, close() ends by raising the exception of
\* one of the failed disconnects, after stripe.shutdown was called; close()
\* returns normally only when no disconnect raised.
C4_ErrorSurfacedAfterRelease ==
  /\ [](close_pc = "raised" =>
          /\ stripe = "shutdown"
          /\ close_error.db \in will_raise
          /\ conn[close_error.db] = "disconnect_failed")
  /\ [](close_pc = "returned" => will_raise = {})
  /\ [][close_pc' = "raised" /\ close_pc # "raised" => stripe = "shutdown"]_vars
  /\ (\E d \in DBs : conn[d] = "disconnect_failed") ~> (close_pc = "raised")

C4_Witness ==
  /\ close_pc = "raised"
  /\ stripe = "shutdown"
  /\ close_error = [db |-> "payin_maindb", err |-> "ConnectionError"]
  /\ will_raise = { "payin_maindb", "ledger_paymentdb" }

\* C5 as stated: close() starts disconnect() on all six handles, and every
\* handle whose own disconnect() does not raise ends up disconnected, also
\* when the disconnect() of another handle raises.
C5_IndependentDisconnects ==
  /\ [](close_pc # "idle" =>
          \A d \in DBs : conn[d] \in { "disconnecting", "disconnected", "disconnect_failed" })
  /\ \A d \in DBs :
       (close_pc # "idle" /\ d \notin will_raise) ~> (conn[d] = "disconnected")

\* C6: with a non-empty AVAILABLE_MAINDB_REPLICAS, the three handles built
\* with an alternative replica all hold the one selected replica.
C6_SameSelectedReplica ==
  (create_pc \notin { "select", "build" } /\ available_maindb_replicas # << >>) =>
    \A d \in AltReplicaDBs :
      /\ replica_url[d] = selected_maindb_replica
      /\ \A e \in AltReplicaDBs : replica_url[d] = replica_url[e]

C6_Witness ==
  /\ create_pc = "returned"
  /\ available_maindb_replicas = << AltEndpoint(1), AltEndpoint(2) >>
  /\ \A d \in AltReplicaDBs : replica_url[d] = AltEndpoint(2)

\* C7: with an empty AVAILABLE_MAINDB_REPLICAS the selection is None and
\* every handle holds its own configured replica URL; with a non-empty one
\* the selection is a member of the list.
C7_SelectionOrFallback ==
  create_pc # "select" =>
    /\ available_maindb_replicas = << >> =>
         /\ selected_maindb_replica = NoEndpoint
         /\ create_pc # "build" => \A d \in DBs : replica_url[d] = ConfigReplicaUrl(d)
    /\ available_maindb_replicas # << >> =>
         selected_maindb_replica \in Range(available_maindb_replicas)

C7_Witness ==
  /\ create_pc = "connect"
  /\ available_maindb_replicas = << >>
  /\ replica_url["payin_maindb"] = ConfigReplicaUrl("payin_maindb")

\* C8: connect() is called in the declared order, on one handle at a time,
\* and only after every earlier handle has connected.
C8_SequentialConnects ==
  /\ Cardinality({ d \in DBs : conn[d] = "connecting" }) <= 1
  /\ connect_calls = SubSeq(ConnectOrder, 1, Len(connect_calls))
  /\ \A k \in 1..Len(connect_calls) :
       \A j \in 1..(k - 1) : conn[ConnectOrder[j]] = "connected"
  /\ \A d \in DBs :
       conn[d] # "disconnected" => \E k \in 1..Len(connect_calls) : connect_calls[k] = d

C8_Witness ==
  /\ conn["payin_paymentdb"] = "connecting"
  /\ \A j \in 1..3 : conn[ConnectOrder[j]] = "connected"

\* C9: set_context_for_app on an app that already holds a context raises an
\* AssertionError, and get_context_from_app still returns the context that
\* was there before.
C9_DoubleAttachFails ==
  (reg_call.op = "set" /\ ExtraGet(reg_before) # NoContext) =>
    /\ reg_call.outcome = "AssertionError"
    /\ get_context_from_app(extra) = Returned(ExtraGet(reg_before))
    /\ ExtraGet(extra) = last_attached

C9_Witness ==
  /\ reg_call = Call("set", 2, Raised)
  /\ ExtraGet(reg_before) = 1
  /\ ExtraGet(extra) = 1

\* C10: get_context_from_app raises an AssertionError exactly when app.extra
\* holds no context (none was set, or a remove_context_for_app call popped
\* it since), and otherwise returns the context of the last successful
\* set_context_for_app.
C10_GetMatchesAttachment ==
  reg_call.op = "get" =>
    /\ (reg_call.outcome = "AssertionError") <=> ("context" \notin DOMAIN extra)
    /\ "context" \in DOMAIN extra =>
         /\ reg_call.outcome = "ok"
         /\ reg_call.value = last_attached
         /\ reg_call.value \in Contexts
    /\ last_attached = NoContext => reg_call.outcome = "AssertionError"

C10_Witness ==
  /\ reg_call = Call("get", NoContext, Returned(2))
  /\ last_attached = 2
  /\ reg_ops >= 4

C10_WitnessDetached ==
  /\ reg_call = Call("get", NoContext, Raised)
  /\ last_attached # NoContext

\* C11: remove_context_for_app raises an AssertionError when app.extra holds
\* no context and when it holds another context than the one passed; it
\* returns only for the context that is held, and app_context_exists is
\* false afterwards.
C11_RemoveOnlyAttached ==
  reg_call.op = "remove" =>
    /\ ExtraGet(reg_before) = NoContext => reg_call.outcome = "AssertionError"
    /\ ExtraGet(reg_before) # reg_call.arg => reg_call.outcome = "AssertionError"
    /\ ExtraGet(reg_before) = reg_call.arg => reg_call.outcome = "ok"
    /\ reg_call.outcome = "ok" => app_context_exists(extra) = 0

C11_Witness ==
  /\ reg_call = Call("remove", 2, Raised)
  /\ ExtraGet(reg_before) = 1
  /\ reg_ops >= 2

C11_WitnessRemoved ==
  /\ reg_call = Call("remove", 1, Returned(NoContext))
  /\ ExtraGet(reg_before) = 1
  /\ app_context_exists(extra) = 0

\* ------------------------------------------------------- repository claims
InsertOps == { "insert_payer", "insert_pgp_customer", "insert_stripe_customer",
               "create_transfer" }

UpdateOps == { "update_pgp_customer", "update_stripe_customer", "update_transfer_by_id" }

PointReadOps == { "get_payer_by_id", "get_pgp_customer", "get_stripe_customer",
                  "get_transfer_by_id" }

ListOps == { "get_transfers_by_ids", "get_transfers_by_submitted_at_and_method" }

\* the last call is a lookup, by its id alone, of the row the last insert made
LooksUpLastInsert ==
  /\ last_insert.id # Null
  /\ repo_call.op \in { "get_payer_by_id", "get_transfer_by_id" }
  /\ repo_call.arg.id = last_insert.id

\* C12 as stated: after an insert returned a model, the lookup by that
\* model's id returns an equal model, also when the replica lags behind the
\* master.
C12_InsertThenGet ==
  LooksUpLastInsert =>
    /\ repo_call.outcome = "ok"
    /\ repo_call.value = last_insert.model

\* C12 as the code has it: get_payer_by_id reads the master and returns an
\* equal model in every case; get_transfer_by_id reads the replica and returns
\* an equal model once the replica has caught up with the master, and None
\* while it lags.
C12_InsertThenGetOnceReplicated ==
  LooksUpLastInsert =>
    /\ repo_call.outcome = "ok"
    /\ repo_call.op = "get_payer_by_id" => repo_call.value = last_insert.model
    /\ repo_call.op = "get_transfer_by_id" =>
         repo_call.value = IF repo_call.lagging THEN {} ELSE last_insert.model

C12_Witness ==
  /\ LooksUpLastInsert
  /\ repo_call.op = "get_transfer_by_id"
  /\ ~repo_call.lagging
  /\ repo_call.value = last_insert.model
  /\ repo_ops = 2

C12_WitnessPayer ==
  /\ LooksUpLastInsert
  /\ repo_call.op = "get_payer_by_id"
  /\ repo_call.lagging
  /\ repo_call.value = last_insert.model

\* C13 as stated: an update whose where-clause matches no row returns None
\* and raises nothing, for update_transfer_by_id, update_pgp_customer and
\* update_stripe_customer (the set-input supplies at least one field).
C13_UpdateWithoutMatchIsNone ==
  ( /\ repo_call.op \in UpdateOps
    /\ repo_call.arg.id \notin DOMAIN repo_before
    /\ DOMAIN repo_call.arg.set # {} ) =>
    /\ repo_call.outcome = "ok"
    /\ repo_call.value = {}

\* C14 as stated: every read returns None, or the empty list, when no row
\* matches, and never an error.
C14_AbsenceIsNotAnError ==
  (repo_call.op \in PointReadOps \cup ListOps /\ repo_call.fetched = 0) =>
    /\ repo_call.outcome = "ok"
    /\ repo_call.value = {}

\* C15 as stated: a lookup given only a legacy key (get_payer_by_id with only
\* legacy_stripe_customer_id or only dd_payer_id, get_stripe_customer with
\* only stripe_id) returns the row that key identifies, the one the lookup by
\* its canonical id returns.
C15_LegacyKeyFindsSameRow ==
  /\ repo_call.op = "get_payer_by_id" =>
       \A key \in { "legacy_stripe_customer_id", "dd_payer_id" }, r \in Rows(master) :
         ( /\ \A c \in PayerFields \ {key} : repo_call.arg[c] = Null
           /\ repo_call.arg[key] # Null
           /\ Matching(master, key, repo_call.arg[key]) = {r} ) =>
           /\ repo_call.outcome = "ok"
           /\ repo_call.value = { FromRow(PayerFields, r) }
  /\ repo_call.op = "get_stripe_customer" =>
       \A r \in Rows(master) :
         ( /\ repo_call.arg.id = Null
           /\ repo_call.arg.stripe_id # Null
           /\ Matching(master, "stripe_id", repo_call.arg.stripe_id) = {r} ) =>
           /\ repo_call.outcome = "ok"
           /\ repo_call.value = { FromRow(StripeCustomerFields, r) }

\* C16 as stated: get_payer_by_id tries the populated keys in the order id,
\* legacy_stripe_customer_id, dd_payer_id and returns the first match, also
\* when a higher key is populated without a match and a lower one matches.
C16_FirstMatchingKey ==
  repo_call.op = "get_payer_by_id" =>
    /\ repo_call.outcome = "ok"
    /\ repo_call.value \in
         { { FromRow(PayerFields, r) : r \in res } :
             res \in FetchOne(PayerSelect_fallback(master, repo_call.arg)) }

\* the key get_payer_by_id looks up by
FirstPopulatedKey(request) ==
  IF request.id # Null THEN "id"
  ELSE IF request.legacy_stripe_customer_id # Null THEN "legacy_stripe_customer_id"
  ELSE "dd_payer_id"

\* C16 as the code has it: get_payer_by_id looks up by the first populated key
\* alone, in the order id, legacy_stripe_customer_id, dd_payer_id: it returns
\* a row whose column holds that key, and None when no row does, whatever the
\* lower keys would match.
C16_FirstPopulatedKeyOnly ==
  repo_call.op = "get_payer_by_id" =>
    LET key == FirstPopulatedKey(repo_call.arg)
        found == Matching(master, key, repo_call.arg[key])
    IN  /\ repo_call.outcome = "ok"
        /\ found = {} => repo_call.value = {}
        /\ found # {} => \E r \in found : repo_call.value = { FromRow(PayerFields, r) }

C16_Witness ==
  /\ repo_call.op = "get_payer_by_id"
  /\ repo_call.arg.id # Null
  /\ repo_call.arg.id \notin DOMAIN master
  /\ repo_call.arg.legacy_stripe_customer_id # Null
  /\ Matching(master, "legacy_stripe_customer_id",
              repo_call.arg.legacy_stripe_customer_id) # {}
  /\ repo_call.value = {}

\* C17: an update writes exactly the fields supplied in its set-input, a
\* supplied null included; the fields not supplied and the other rows keep
\* what they held.
C17_PartialUpdate ==
  (repo_call.op \in UpdateOps /\ repo_call.outcome = "ok") =>
    /\ DOMAIN master = DOMAIN repo_before
    /\ \A k \in DOMAIN master :
         \A c \in DOMAIN master[k] :
           master[k][c] = IF k = repo_call.arg.id /\ c \in DOMAIN repo_call.arg.set
                          THEN repo_call.arg.set[c]
                          ELSE repo_before[k][c]

C17_Witness ==
  /\ repo_call.op = "update_stripe_customer"
  /\ repo_call.outcome = "ok"
  /\ DOMAIN repo_call.arg.set = { "default_card" }
  /\ repo_call.arg.set["default_card"] = Null
  /\ repo_before[repo_call.arg.id]["default_card"] # Null
  /\ master[repo_call.arg.id]["default_card"] = Null
  /\ master[repo_call.arg.id]["stripe_id"] # Null

C17_WitnessOtherRow ==
  /\ repo_call.op = "update_transfer_by_id"
  /\ repo_call.value # {}
  /\ Cardinality(DOMAIN master) = 2
  /\ "method" \notin DOMAIN repo_call.arg.set
  /\ master[repo_call.arg.id]["method"] # Null

\* C18: every insert and every update of the two repositories runs on the
\* master pool in one statement, and the model it returns is the row as that
\* statement wrote it.
C18_WritesOnMasterReturning ==
  repo_call.op \in InsertOps \cup UpdateOps =>
    /\ repo_call.pool = "master"
    /\ repo_call.stmts = 1
    /\ \A m \in repo_call.value :
         /\ m.id \in DOMAIN master
         /\ m = FromRow(DOMAIN m, master[m.id])

C18_Witness ==
  /\ repo_call.op = "update_pgp_customer"
  /\ repo_call.value # {}
  /\ repo_call.lagging

C18_WitnessInsert ==
  /\ repo_call.op = "insert_stripe_customer"
  /\ repo_call.value # {}
  /\ replica # master

\* C19 as stated: get_transfers_by_ids and
\* get_transfers_by_submitted_at_and_method both run on the replica pool.
C19_ListOpsOnReplica ==
  repo_call.op \in ListOps => repo_call.pool = "replica"

\* C20: an insert whose statement returns no row fails with an
\* AssertionError and never returns None.
C20_InsertWithoutRowAsserts ==
  ( /\ repo_call.op \in InsertOps
    /\ repo_call.fetched = 0
    /\ repo_call.outcome # "IntegrityError" ) =>
    /\ repo_call.outcome = "AssertionError"
    /\ master = repo_before

C20_Witness ==
  /\ repo_call.op = "create_transfer"
  /\ repo_call.fetched = 0
  /\ repo_call.outcome = "AssertionError"

C20_WitnessPayer ==
  /\ repo_call.op = "insert_payer"
  /\ repo_call.outcome = "AssertionError"
  /\ repo_call.arg.id \notin DOMAIN master

\* ------------------------------------------- registration claims, continued
\* C22: app_context_exists never raises and answers true exactly when
\* app.extra holds a context at the time of the call, whatever calls of
\* set_context_for_app and remove_context_for_app, returning or raising,
\* came before.
C22_ExistsIffAttached ==
  reg_call.op = "exists" =>
    /\ reg_call.outcome = "ok"
    /\ reg_call.value = 1 <=> ExtraGet(extra) # NoContext
    /\ reg_call.value = 0 <=> ExtraGet(extra) = NoContext
    /\ reg_call.value = 1 <=> get_context_from_app(extra).outcome = "ok"

C22_Witness ==
  /\ reg_call = Call("exists", NoContext, Returned(0))
  /\ last_attached # NoContext
  /\ reg_ops >= 3

C22_WitnessAttached ==
  /\ reg_call = Call("exists", NoContext, Returned(1))
  /\ reg_ops >= 3

\* C23 as stated: a remove_context_for_app that raises leaves app.extra as it
\* was, so that the context attached before is still attached.
C23_FailedRemoveChangesNothing ==
  (reg_call.op = "remove" /\ reg_call.outcome = "AssertionError") =>
    /\ extra = reg_before
    /\ app_context_exists(extra) = app_context_exists(reg_before)

\* ------------------------------------------- repository claims, continued
\* C26: a call of get_transfers_by_submitted_at_and_method(start_time) returns
\* the ids of exactly the rows the replica holds at the time of the call with
\* a submitted_at at or after start_time and the method STRIPE, each once; a
\* row submitted exactly at start_time is among them. (The replica is still
\* as the call saw it unless it lagged then and has caught up since.)
C26_SubmittedSinceOnReplica ==
  ( /\ repo_call.op = "get_transfers_by_submitted_at_and_method"
    /\ repo_call.lagging => replica # master ) =>
    /\ repo_call.outcome = "ok"
    /\ repo_call.value =
         { k \in DOMAIN replica :
             /\ replica[k].submitted_at \in Times
             /\ ~(replica[k].submitted_at < repo_call.arg.start_time)
             /\ replica[k].method = STRIPE }
    /\ repo_call.fetched = Cardinality(repo_call.value)

C26_Witness ==
  /\ repo_call.op = "get_transfers_by_submitted_at_and_method"
  /\ ~repo_call.lagging
  /\ DOMAIN replica = {1, 2}
  /\ repo_call.value = {2}
  /\ replica[2].submitted_at = repo_call.arg.start_time
  /\ replica[1].method = STRIPE
  /\ replica[1].submitted_at # Null

C26_WitnessLagging ==
  /\ repo_call.op = "get_transfers_by_submitted_at_and_method"
  /\ repo_call.lagging
  /\ repo_call.value = {}
  /\ SubmittedSince(master, repo_call.arg.start_time) # {}

\* ------------------------------------------- create_app_context, continued
\* C24 as stated: when create_app_context raises because a connect raised, no
\* handle is connected any more: those connected before have been
\* disconnected.
C24_FailedCreateLeavesNothingConnected ==
  create_pc = "raised" => \A d \in DBs : conn[d] # "connected"

\* C25: when create_app_context has returned a context, all six handles are
\* connected; the stripe client pool exists only once all six connects have
\* returned, so that a create_app_context that raised has made none.
C25_ReturnedContextFullyConnected ==
  /\ create_pc = "returned" =>
       /\ \A d \in DBs : conn[d] = "connected"
       /\ stripe = "running"
  /\ stripe # "absent" =>
       /\ connect_calls = ConnectOrder
       /\ \A d \in DBs : conn[d] = "connected"
  /\ create_pc = "raised" => stripe = "absent"

C25_Witness ==
  /\ create_pc = "returned"
  /\ stripe = "running"
  /\ connect_calls = ConnectOrder
  /\ selected_maindb_replica # NoEndpoint

C25_WitnessFailed ==
  /\ create_pc = "raised"
  /\ stripe = "absent"
  /\ connect_calls = ConnectOrder

C21_WitnessRoundTrip ==
  \E d \in DBs :
    /\ handle[d].last.op = "disconnect"
    /\ handle[d].last.before = HandleConnected
    /\ handle[d].state = "disconnected"

C21_WitnessFailedDisconnect ==
  \E d \in DBs :
    /\ handle[d].last = DBCall("disconnect", "ConnectionError", HandleConnected)
    /\ Observed(handle[d]) = HandleConnected

C21_WitnessPendingConnect ==
  \E d \in DBs :
    /\ handle[d].state = "connecting"
    /\ handle[d].master_pool
    /\ ~handle[d].replica_pool

C21_WitnessFailedConnect ==
  \E d \in DBs :
    /\ handle[d].last = DBCall("connect", "ConnectionError", HandleDisconnected)
    /\ handle[d].state = "disconnected"

====
